---------------------------- MODULE Spec2Model ----------------------------
(***************************************************************************)
(* b2luigi/core/utils.py: the parameter combinator (product_dict,          *)
(* fill_kwargs_with_lists), the task tree walker (task_iterator), the      *)
(* output registry builder (get_all_output_files_in_tree), the filter      *)
(* engine (filter_from_params) and the path deriver                        *)
(* (get_serialized_parameters, create_output_file_name).                   *)
(*                                                                         *)
(* Python values are tagged records [t, v]:                                *)
(*   str   v = the sequence of its characters                              *)
(*   int   v = the sequence of its decimal digits                          *)
(*   none  v = << >>                                                       *)
(*   list  v = the sequence of its elements                                *)
(*   dict  v = the sequence of its <<key, value>> items, in insertion      *)
(*             order (keyword arguments and OrderedDicts are held as the   *)
(*             bare sequence of items)                                     *)
(* A call's outcome is [exc, val]: exc = "" and val the returned value, or  *)
(* exc the name of the exception raised.                                   *)
(***************************************************************************)
EXTENDS Integers, Sequences, FiniteSets, TLC

VARIABLES
    pc,               \* position of the caller's script
    deps,             \* task -> sequence of tasks: task.deps()
    outs,             \* task -> dict key -> path: task.get_output_file_names()
    params,           \* task -> sequence of [name, value, significant]: task.get_params()
    frames,           \* task_iterator: the suspended generator frames [task, i]
    yielded,          \* the tasks task_iterator has yielded so far
    all_output_files, \* get_all_output_files_in_tree: the defaultdict being built
    key,              \* get_all_output_files_in_tree: the key argument
    tree_result,      \* outcome of get_all_output_files_in_tree(root, key)
    output_files,     \* filter_from_params: the output_files argument
    kwargs,           \* filter_from_params / the combinator: **kwargs
    assignments,      \* list(product_dict(**fill_kwargs_with_lists(**kwargs)))
    filtered,         \* outcome of filter_from_params(output_files, **kwargs)
    base_filename,    \* create_output_file_name: base_filename
    result_path,      \* create_output_file_name: result_path
    settings,         \* b2luigi.core.settings: the process-wide store
    filename,         \* outcome of create_output_file_name(task, base_filename, ...)
    dirs              \* the directories os.makedirs has created

vars == <<pc, deps, outs, params, frames, yielded, all_output_files, key,
          tree_result, output_files, kwargs, assignments, filtered,
          base_filename, result_path, settings, filename, dirs>>

treeVars == <<deps, outs, frames, yielded, all_output_files, key, tree_result>>
filterVars == <<output_files, kwargs, assignments, filtered>>
pathVars == <<base_filename, result_path, settings, filename, dirs>>

------------------------------------------------------------------------------
\* Bounds of the model.
MaxRecords == 2      \* records in output_files
MaxDeps == 2         \* dependencies one task declares
MaxValueLen == 3     \* characters of a serialized parameter value (path deriver)

------------------------------------------------------------------------------
\* Python values.
PyNone == [t |-> "none", v |-> << >>]
PyStr(chars) == [t |-> "str", v |-> chars]
PyInt(digits) == [t |-> "int", v |-> digits]
PyList(elems) == [t |-> "list", v |-> elems]
Dict(items) == [t |-> "dict", v |-> items]

Return(val) == [exc |-> "", val |-> val]
Raise(name) == [exc |-> name, val |-> << >>]

\* a == b of Python: values of different types are unequal.
PyEq(a, b) == a.t = b.t /\ a.v = b.v

\* key in d, d[key] for a dict held as a sequence of items.
HasKey(d, k) == \E i \in 1..Len(d) : d[i][1] = k
GetItem(d, k) == d[CHOOSE i \in 1..Len(d) : d[i][1] = k][2]
Keys(d) == [i \in 1..Len(d) |-> d[i][1]]
Values(d) == [i \in 1..Len(d) |-> d[i][2]]

\* d[k] = v: an existing key keeps its place, a new key goes last.
SetItem(d, k, v) ==
    IF HasKey(d, k)
    THEN [i \in 1..Len(d) |-> IF d[i][1] = k THEN <<k, v>> ELSE d[i]]
    ELSE Append(d, <<k, v>>)

\* isinstance(value, collections.Iterable), on the Python versions that have
\* this alias of collections.abc.Iterable: a str is iterable, like a list.
IsIterable(value) == value.t \in {"str", "list"}

\* What iterating the value yields: the elements of a list, the
\* one-character strings of a str.
IterItems(value) ==
    IF value.t = "str"
    THEN [i \in 1..Len(value.v) |-> PyStr(<<value.v[i]>>)]
    ELSE value.v

------------------------------------------------------------------------------
\* Parameter combinator.

\* itertools.product(*iters): the tuples in lexicographic order, the last
\* position advancing fastest; the product of no iterables is one empty tuple.
RECURSIVE Product(_)
Product(iters) ==
    IF iters = << >> THEN << << >> >>
    ELSE LET first == iters[1]
             rest == Product(Tail(iters))
             n == Len(first)
             m == Len(rest)
         IN  [k \in 1..(n * m) |->
                 <<first[((k - 1) \div m) + 1]>> \o rest[((k - 1) % m) + 1]]

\* dict(zip(keys, instance))
ZipDict(keys, instance) == [i \in 1..Len(keys) |-> <<keys[i], instance[i]>>]

\* product_dict yielding nothing for an empty mapping.
product_dict_EmptyYieldsNothing(kw) ==
    IF kw = << >> THEN << >>
    ELSE LET prod == Product([i \in 1..Len(kw) |-> IterItems(kw[i][2])])
         IN  [k \in 1..Len(prod) |-> ZipDict(Keys(kw), prod[k])]

product_dict(kw) ==
    LET keys == Keys(kw)
        vals == Values(kw)
        prod == Product([i \in 1..Len(vals) |-> IterItems(vals[i])])
    IN  [k \in 1..Len(prod) |-> ZipDict(keys, prod[k])]

\* The loop body without its None branch: None is wrapped like any scalar.
FillValue_NoneWrapped(value) ==
    IF ~IsIterable(value) THEN PyList(<<value>>) ELSE value

\* The loop body of fill_kwargs_with_lists for one value.
FillValue(value) ==
    LET v1 == IF value.t = "none" THEN PyList(<< >>) ELSE value
    IN  IF ~IsIterable(v1) THEN PyList(<<v1>>) ELSE v1

RECURSIVE FillInto(_, _)
FillInto(return_kwargs, items) ==
    IF items = << >> THEN return_kwargs
    ELSE FillInto(SetItem(return_kwargs, items[1][1], FillValue(items[1][2])),
                  Tail(items))

fill_kwargs_with_lists(kw) == FillInto(<< >>, kw)

------------------------------------------------------------------------------
\* Filter engine.

\* The inner loop over kwargs.items(): not_use stays False.
Matches(assignment, parameters) ==
    \A i \in 1..Len(assignment) :
        ~(HasKey(parameters, assignment[i][1])
          /\ ~PyEq(GetItem(parameters, assignment[i][1]), assignment[i][2]))

\* file_names.add(output_dict): output_dict is a dict, which has no hash.
SetAdd(file_names, output_dict) == Raise("TypeError")

\* The loops run assignment by assignment, record by record: the first
\* record that matches is added to the set, which raises; when no record
\* matches any assignment the set stays empty and list(file_names) is [].
filter_from_params(files, kw) ==
    LET kwargs_list == fill_kwargs_with_lists(kw)
    IN  IF kwargs_list = << >> THEN Return(files)
        ELSE LET expanded == product_dict(kwargs_list)
                 hits == {h \in (1..Len(expanded)) \X (1..Len(files)) :
                             Matches(expanded[h[1]], files[h[2]].parameters)}
             IN  IF hits # {}
                 THEN LET h == CHOOSE h \in hits : \A g \in hits :
                                   h[1] < g[1] \/ (h[1] = g[1] /\ h[2] <= g[2])
                      IN  SetAdd({}, files[h[2]])
                 ELSE Return(<< >>)

------------------------------------------------------------------------------
\* Serialized parameters.

\* parameter.serialize(value): the value as a str (the digits of an int).
serialize(value) == PyStr(value.v)

\* get_serialized_parameters serializing every parameter, significant or not.
RECURSIVE SerializeAll(_, _)
SerializeAll(serialized_parameters, plist) ==
    IF plist = << >> THEN serialized_parameters
    ELSE SerializeAll(SetItem(serialized_parameters, plist[1].name,
                              serialize(plist[1].value)),
                      Tail(plist))

\* The loop of get_serialized_parameters over task.get_params().
RECURSIVE SerializeInto(_, _)
SerializeInto(serialized_parameters, plist) ==
    IF plist = << >> THEN serialized_parameters
    ELSE IF ~plist[1].significant
         THEN SerializeInto(serialized_parameters, Tail(plist))
         ELSE SerializeInto(SetItem(serialized_parameters, plist[1].name,
                                    serialize(plist[1].value)),
                            Tail(plist))

get_serialized_parameters_All(task) == SerializeAll(<< >>, params[task])

get_serialized_parameters(task) == SerializeInto(<< >>, params[task])

------------------------------------------------------------------------------
\* Task tree walker.  A generator frame is [task, i]: i = -1 before its
\* "yield task", afterwards the number of dependencies it has walked.

\* The dependencies taken last to first.
NextDep_Reversed(task, i) == deps[task][Len(deps[task]) - i]

\* The dependency the loop "for dep in task.deps()" takes after i of them.
NextDep(task, i) == deps[task][i + 1]

\* next() on the generator: run the frames up to the next yield, or to the
\* end of the outermost one (StopIteration).
RECURSIVE Resume(_)
Resume(fr) ==
    IF fr = << >> THEN [frames |-> << >>, stop |-> TRUE, task |-> 0]
    ELSE LET n == Len(fr)
             top == fr[n]
         IN  IF top.i = -1
             THEN [frames |-> [fr EXCEPT ![n].i = 0], stop |-> FALSE, task |-> top.task]
             ELSE IF top.i < Len(deps[top.task])
             THEN Resume(Append([fr EXCEPT ![n].i = top.i + 1],
                                [task |-> NextDep(top.task, top.i), i |-> -1]))
             ELSE Resume(SubSeq(fr, 1, n - 1))

\* task_iterator(task): the generator, not yet started.
task_iterator(task) == <<[task |-> task, i |-> -1]>>

------------------------------------------------------------------------------
\* Output registry builder.

Cwd == <<"/", "w">>

\* os.path.join(a, b) for two components.
JoinTwo(path, b) ==
    IF b # << >> /\ b[1] = "/" THEN b
    ELSE IF path = << >> \/ path[Len(path)] = "/" THEN path \o b
    ELSE path \o <<"/">> \o b

\* os.path.join(a, *p)
RECURSIVE PathJoin(_, _)
PathJoin(path, p) ==
    IF p = << >> THEN path ELSE PathJoin(JoinTwo(path, p[1]), Tail(p))

\* os.path.abspath(path) for a path with no ".", ".." or doubled "/" in it:
\* a relative path is joined to the working directory.
AbsPath(path) ==
    IF path # << >> /\ path[1] = "/" THEN path ELSE JoinTwo(Cwd, path)

\* bool(x) for None, a str or a dict.
Truthy(x) == x.t # "none" /\ x.v # << >>

\* all_output_files[file_key].append(record) putting the record first.
AppendRecord_Prepend(registry, file_key, record) ==
    IF HasKey(registry, file_key)
    THEN SetItem(registry, file_key, <<record>> \o GetItem(registry, file_key))
    ELSE Append(registry, <<file_key, <<record>>>>)

\* all_output_files[file_key].append(record) on the defaultdict(list).
AppendRecord(registry, file_key, record) ==
    IF HasKey(registry, file_key)
    THEN SetItem(registry, file_key, Append(GetItem(registry, file_key), record))
    ELSE Append(registry, <<file_key, <<record>>>>)

\* The loop over output_dict.items() for one task.
RECURSIVE AddOutputs(_, _, _)
AddOutputs(registry, task, items) ==
    IF items = << >> THEN registry
    ELSE AddOutputs(
             AppendRecord(registry, items[1][1],
                          [parameters |-> get_serialized_parameters(task),
                           file_name |-> AbsPath(items[1][2])]),
             task, Tail(items))

\* The body of "for task in task_iterator(root_module)".
LoopBody(registry, task) ==
    LET output_dict == outs[task]
    IN  IF ~Truthy(output_dict) THEN registry
        ELSE AddOutputs(registry, task, output_dict.v)

\* all_output_files[key] on the defaultdict(list): a missing key is given an
\* empty list, which is returned.
DefaultGetItem(registry, k) ==
    IF HasKey(registry, k) THEN Return(PyList(GetItem(registry, k)))
    ELSE Return(PyList(<< >>))

------------------------------------------------------------------------------
\* Path deriver.

\* b2luigi.core.settings.get_setting(key, default)
get_setting(k, default) == IF HasKey(settings, k) THEN GetItem(settings, k) ELSE default

\* b2luigi.core.settings.set_setting(key, value)
set_setting(k, value) == SetItem(settings, k, value)

\* f"{key}={value}" for a parameter whose name is the one character key.
ParamSegment(k, value) == <<k, "=">> \o value.v

ParamList(serialized_parameters) ==
    [i \in 1..Len(serialized_parameters) |->
        ParamSegment(serialized_parameters[i][1], serialized_parameters[i][2])]

\* The path joined from the root, the last parameter's segment and the base
\* filename only.
DerivePath_LastSegmentOnly(serialized_parameters, base, path_arg) ==
    LET root == IF ~Truthy(path_arg) THEN get_setting("result_path", <<".">>)
                ELSE path_arg.v
        param_list == ParamList(serialized_parameters)
        n == Len(param_list)
    IN  PathJoin(root, (IF n = 0 THEN << >> ELSE <<param_list[n]>>) \o <<base>>)

\* create_output_file_name from the serialized parameters on: the root, the
\* segments, os.path.join.
DerivePath(serialized_parameters, base, path_arg) ==
    LET root == IF ~Truthy(path_arg) THEN get_setting("result_path", <<".">>)
                ELSE path_arg.v
        param_list == ParamList(serialized_parameters)
    IN  PathJoin(root, param_list \o <<base>>)

create_output_file_name(task, base, path_arg) ==
    DerivePath(get_serialized_parameters(task), base, path_arg)

\* path.rstrip("/")
RECURSIVE RStripSlash(_)
RStripSlash(path) ==
    IF path # << >> /\ path[Len(path)] = "/"
    THEN RStripSlash(SubSeq(path, 1, Len(path) - 1))
    ELSE path

\* os.path.dirname(path)
DirName(path) ==
    LET slashes == {i \in 1..Len(path) : path[i] = "/"}
        i == IF slashes = {} THEN 0 ELSE CHOOSE m \in slashes : \A j \in slashes : j <= m
        head == SubSeq(path, 1, i)
    IN  IF RStripSlash(head) = << >> THEN head ELSE RStripSlash(head)

\* os.makedirs(name, exist_ok=True): the directory exists afterwards, whether
\* or not it did before.
MakeDirs(existing, name) == existing \cup {name}

------------------------------------------------------------------------------
\* Inputs of the filter engine and the combinator.

SeqsUpTo(S, n) == UNION {[1..k -> S] : k \in 0..n}

One == PyStr(<<"1">>)
Two == PyStr(<<"2">>)
SerializedValues == {One, Two}

\* The OrderedDicts get_serialized_parameters returns for tasks that declare
\* x, y, both or neither.
ParameterSets ==
    {<< >>}
    \cup {<< <<"x", a>> >> : a \in SerializedValues}
    \cup {<< <<"y", a>> >> : a \in SerializedValues}
    \cup {<< <<"x", a>>, <<"y", b>> >> : a \in SerializedValues, b \in SerializedValues}

\* dict(parameters=..., file_name=...) as the registry builder makes them.
OutputRecords == {[parameters |-> p, file_name |-> <<"/", "f">>] : p \in ParameterSets}

\* What a caller passes for one keyword: None, an int, a str (of one
\* character, of two, empty) or a list of candidates.
ConstraintValues ==
    {PyNone, PyInt(<<"1">>), One, PyStr(<<"1", "2">>), PyStr(<< >>),
     PyList(<< >>), PyList(<<One>>), PyList(<<One, Two>>),
     PyList(<<PyInt(<<"1">>), PyInt(<<"2">>)>>)}

KwargNames == {<< >>, <<"x">>, <<"z">>, <<"x", "z">>, <<"z", "x">>}

KwargSets ==
    UNION {{ZipDict(ks, vs) : vs \in [1..Len(ks) -> ConstraintValues]} : ks \in KwargNames}

Unset == [exc |-> "unset", val |-> << >>]

InitFilter ==
    /\ pc = "ready"
    /\ output_files \in SeqsUpTo(OutputRecords, MaxRecords)
    /\ kwargs \in KwargSets
    /\ assignments = Unset
    /\ filtered = Unset
    /\ deps = << >> /\ outs = << >> /\ params = << >>
    /\ frames = << >> /\ yielded = << >> /\ all_output_files = << >>
    /\ key = PyNone /\ tree_result = Unset
    /\ base_filename = << >> /\ result_path = PyNone
    /\ settings = << >> /\ filename = Unset /\ dirs = {}

\* list(product_dict(**fill_kwargs_with_lists(**kwargs)))
Expand ==
    /\ pc = "ready"
    /\ assignments' = Return(product_dict(fill_kwargs_with_lists(kwargs)))
    /\ pc' = "expanded"
    /\ UNCHANGED <<output_files, kwargs, filtered, params>>
    /\ UNCHANGED treeVars
    /\ UNCHANGED pathVars

\* filter_from_params(output_files, **kwargs)
Filter ==
    /\ pc = "ready"
    /\ filtered' = filter_from_params(output_files, kwargs)
    /\ pc' = "filtered"
    /\ UNCHANGED <<output_files, kwargs, assignments, params>>
    /\ UNCHANGED treeVars
    /\ UNCHANGED pathVars

NextFilter == Expand \/ Filter

SpecFilter == InitFilter /\ [][NextFilter]_vars

------------------------------------------------------------------------------
\* Properties of the combinator and the filter engine (SpecFilter).

\* An assignment and a parameter set agree on every key they share.
Agree(assignment, parameters) ==
    \A i \in 1..Len(assignment) : \A j \in 1..Len(parameters) :
        assignment[i][1] = parameters[j][1]
            => PyEq(assignment[i][2], parameters[j][2])

Expansion == product_dict(fill_kwargs_with_lists(kwargs))

\* The record, once per assignment of the expansion it agrees with.
RECURSIVE Emissions(_, _)
Emissions(record, expanded) ==
    IF expanded = << >> THEN << >>
    ELSE (IF Agree(expanded[1], record.parameters) THEN <<record>> ELSE << >>)
         \o Emissions(record, Tail(expanded))

RECURSIVE EmissionsInOrder(_, _)
EmissionsInOrder(files, expanded) ==
    IF files = << >> THEN << >>
    ELSE Emissions(files[1], expanded) \o EmissionsInOrder(Tail(files), expanded)

\* C2: for a non-empty constraint mapping filter_from_params returns the
\* records in input order, each once per expanded assignment it matches
\* (no de-duplication).
C2_InputOrderNoDedup ==
    (pc = "filtered" /\ kwargs # << >>)
        => filtered = Return(EmissionsInOrder(output_files, Expansion))

\* C3: for a non-empty constraint mapping a record is in the result of
\* filter_from_params iff some expanded assignment agrees with it on every
\* key they share; a key absent from the record never excludes it.
C3_IncludedIffSomeAssignmentAgrees ==
    (pc = "filtered" /\ kwargs # << >>)
        => /\ filtered.exc = ""
           /\ \A r \in 1..Len(output_files) :
                  (\E k \in 1..Len(filtered.val) : filtered.val[k] = output_files[r])
                  <=> (\E a \in 1..Len(Expansion) :
                          Agree(Expansion[a], output_files[r].parameters))

\* The candidates the claim counts for one constraint value: the elements of
\* a sequence of candidates, nothing for None, the value itself otherwise.
Candidates(value) ==
    IF value.t = "list" THEN value.v
    ELSE IF value.t = "none" THEN << >>
    ELSE <<value>>

RECURSIVE CandidateProduct(_)
CandidateProduct(kw) ==
    IF kw = << >> THEN 1
    ELSE Len(Candidates(kw[1][2])) * CandidateProduct(Tail(kw))

\* C4: normalization then expansion takes every value that is not a sequence
\* of candidates (a single str included) as one candidate: the number of
\* assignments is the product of the candidate-list lengths and each
\* assignment maps every input key, in order, to one of its candidates.
C4_OneCandidatePerScalar ==
    pc = "expanded"
        => /\ assignments.exc = ""
           /\ Len(assignments.val) = CandidateProduct(kwargs)
           /\ \A a \in 1..Len(assignments.val) :
                  /\ Keys(assignments.val[a]) = Keys(kwargs)
                  /\ \A i \in 1..Len(kwargs) :
                         \E c \in 1..Len(Candidates(kwargs[i][2])) :
                             PyEq(assignments.val[a][i][2], Candidates(kwargs[i][2])[c])

\* A constraint value that is None or an empty sequence.
IsEmptyEntry(value) ==
    value.t = "none" \/ (value.t \in {"list", "str"} /\ value.v = << >>)

RemoveAt(seq, i) == [j \in 1..(Len(seq) - 1) |-> IF j < i THEN seq[j] ELSE seq[j + 1]]

\* C5 as claimed: adding an entry whose value is None or empty eliminates no
\* record that the mapping without the entry returns.
C5_EmptyEntryEliminatesNothing ==
    pc = "filtered"
        => \A i \in 1..Len(kwargs) :
               IsEmptyEntry(kwargs[i][2])
                   => LET without == filter_from_params(output_files, RemoveAt(kwargs, i))
                      IN  without.exc = ""
                              => /\ filtered.exc = ""
                                 /\ \A j \in 1..Len(without.val) :
                                        \E k \in 1..Len(filtered.val) :
                                            filtered.val[k] = without.val[j]

HasEmptyEntry == \E i \in 1..Len(kwargs) : IsEmptyEntry(kwargs[i][2])

\* C5 as amended: an entry whose value is None or an empty sequence gives the
\* key no candidate, so the expansion holds no assignment and
\* filter_from_params returns the empty list, whatever the other entries are.
C5_EmptyEntryYieldsNothing ==
    /\ (pc = "expanded" /\ HasEmptyEntry) => assignments = Return(<< >>)
    /\ (pc = "filtered" /\ HasEmptyEntry) => filtered = Return(<< >>)

\* A None entry beside a constraint that every record satisfies.
C5_Witness ==
    /\ pc = "filtered"
    /\ kwargs = << <<"z", One>>, <<"x", PyNone>> >>
    /\ Len(output_files) = MaxRecords
    /\ filtered = Return(<< >>)

\* C10 as claimed: product_dict of an empty mapping yields no assignment, and
\* filter_from_params with no constraints returns output_files unchanged.
C10_EmptyMappingYieldsNothing ==
    /\ (pc = "expanded" /\ kwargs = << >>) => assignments = Return(<< >>)
    /\ (pc = "filtered" /\ kwargs = << >>) => filtered = Return(output_files)

\* C10 as amended: product_dict of an empty mapping yields exactly one
\* assignment, the empty one; filter_from_params with no constraints returns
\* output_files unchanged.
C10_EmptyMappingYieldsOneEmptyAssignment ==
    /\ (pc = "expanded" /\ kwargs = << >>) => assignments = Return(<< << >> >>)
    /\ (pc = "filtered" /\ kwargs = << >>) => filtered = Return(output_files)

C10_Witness ==
    /\ pc = "expanded"
    /\ kwargs = << >>
    /\ Len(assignments.val) = 1

------------------------------------------------------------------------------
\* Walking a task tree and building its registry.

Tasks == 1..3
Root == 1

LogKey == <<"l", "o", "g">>
HistKey == <<"h", "i", "s">>
OtherKey == <<"n", "o">>

\* What get_output_file_names() returns: None, an empty dict, or a dict from
\* output key to a relative or an absolute path.
OutputDicts ==
    {PyNone, Dict(<< >>), Dict(<< <<LogKey, <<"l">> >> >>),
     Dict(<< <<LogKey, <<"l">> >>, <<HistKey, <<"/", "h">> >> >>)}

\* task.get_params() with the task's values: a significant run number,
\* with or without an insignificant parameter before it.
RunOne ==
    <<[name |-> "n", value |-> PyStr(<<"9">>), significant |-> FALSE],
      [name |-> "r", value |-> PyInt(<<"1">>), significant |-> TRUE]>>

RunTwo == <<[name |-> "r", value |-> PyInt(<<"2">>), significant |-> TRUE]>>

TreeParams == {RunOne, RunTwo}

\* The key argument: None, a declared key, or one that no task declares.
KeyArgs == {PyNone, PyStr(LogKey), PyStr(HistKey), PyStr(OtherKey)}

InitTree ==
    /\ pc = "tree_ready"
    /\ deps \in [Tasks -> SeqsUpTo(Tasks, MaxDeps)]
    /\ \A t \in Tasks : \A i \in 1..Len(deps[t]) : deps[t][i] > t
    /\ outs \in [Tasks -> OutputDicts]
    /\ params \in [Tasks -> TreeParams]
    /\ frames = << >> /\ yielded = << >> /\ all_output_files = << >>
    /\ key = PyNone /\ tree_result = Unset
    /\ output_files = << >> /\ kwargs = << >>
    /\ assignments = Unset /\ filtered = Unset
    /\ base_filename = << >> /\ result_path = PyNone
    /\ settings = << >> /\ filename = Unset /\ dirs = {}

\* get_all_output_files_in_tree(root_module): the defaultdict and the
\* generator are created.
StartWalk ==
    /\ pc = "tree_ready"
    /\ all_output_files' = << >>
    /\ frames' = task_iterator(Root)
    /\ pc' = "walking"
    /\ UNCHANGED <<deps, outs, params, yielded, key, tree_result>>
    /\ UNCHANGED filterVars
    /\ UNCHANGED pathVars

\* One iteration of "for task in task_iterator(root_module)".
LoopStep ==
    /\ pc = "walking"
    /\ LET r == Resume(frames)
       IN  /\ ~r.stop
           /\ frames' = r.frames
           /\ yielded' = Append(yielded, r.task)
           /\ all_output_files' = LoopBody(all_output_files, r.task)
    /\ pc' = "walking"
    /\ UNCHANGED <<deps, outs, params, key, tree_result>>
    /\ UNCHANGED filterVars
    /\ UNCHANGED pathVars

\* The generator is exhausted: the loop ends.
LoopEnd ==
    /\ pc = "walking"
    /\ Resume(frames).stop
    /\ frames' = << >>
    /\ pc' = "built"
    /\ UNCHANGED <<deps, outs, params, yielded, all_output_files, key, tree_result>>
    /\ UNCHANGED filterVars
    /\ UNCHANGED pathVars

\* The return of get_all_output_files_in_tree(root_module, key): the key is
\* read only here, "if key" indexing the registry the walk built.
ReturnTree(k) ==
    /\ pc = "built"
    /\ key' = k
    /\ IF Truthy(k)
       THEN /\ tree_result' = DefaultGetItem(all_output_files, k.v)
            /\ all_output_files' =
                   IF HasKey(all_output_files, k.v) THEN all_output_files
                   ELSE Append(all_output_files, <<k.v, << >> >>)
       ELSE /\ tree_result' = Return(Dict(all_output_files))
            /\ UNCHANGED all_output_files
    /\ pc' = "returned"
    /\ UNCHANGED <<deps, outs, params, frames, yielded>>
    /\ UNCHANGED filterVars
    /\ UNCHANGED pathVars

NextTree == StartWalk \/ LoopStep \/ LoopEnd \/ (\E k \in KeyArgs : ReturnTree(k))

SpecTree == InitTree /\ [][NextTree]_vars

\* The trees whose tasks all have the same parameters: the walk reads
\* deps() only.
InitWalk == InitTree /\ \A t \in Tasks : params[t] = RunTwo

\* The caller's loop runs the walk to its end and the call returns.
FairSpecWalk == InitWalk /\ [][NextTree]_vars /\ WF_vars(NextTree)

------------------------------------------------------------------------------
\* Properties of the walker and the registry builder (SpecTree, FairSpecWalk).

\* A dependency path from the root is the sequence of positions taken in the
\* deps() lists along it; EndOf is the task it reaches, 0 when there is no
\* such path.
RECURSIVE EndOf(_)
EndOf(p) ==
    IF p = << >> THEN Root
    ELSE LET from == EndOf(SubSeq(p, 1, Len(p) - 1))
             last == p[Len(p)]
         IN  IF from = 0 \/ last > Len(deps[from]) THEN 0 ELSE deps[from][last]

DepPaths == {p \in SeqsUpTo(1..MaxDeps, Cardinality(Tasks) - 1) : EndOf(p) # 0}

\* p comes before q in depth-first pre-order: p is a proper prefix of q, or
\* takes an earlier dependency where they first differ.
PathBefore(p, q) ==
    \/ Len(p) < Len(q) /\ SubSeq(q, 1, Len(p)) = p
    \/ \E k \in 1..Len(p) :
           /\ k <= Len(q)
           /\ SubSeq(p, 1, k - 1) = SubSeq(q, 1, k - 1)
           /\ p[k] < q[k]

\* The tasks at the ends of all dependency paths, in pre-order.
PreOrder ==
    LET paths == DepPaths
    IN  [k \in 1..Cardinality(paths) |->
            EndOf(CHOOSE p \in paths :
                      Cardinality({q \in paths : PathBefore(q, p)}) = k - 1)]

Occurrences(seq, x) == Cardinality({i \in 1..Len(seq) : seq[i] = x})

\* C8: on an acyclic task graph the walk ends, and it yields the tasks in
\* depth-first pre-order (root first, dependencies in declared order), a
\* task once per dependency path that reaches it.
C8_WalkEndsInPreOrder ==
    /\ <>(pc = "returned")
    /\ [](LET walk == PreOrder
          IN  /\ yielded = SubSeq(walk, 1, Len(yielded))
              /\ pc \in {"built", "returned"} => yielded = walk)
    /\ [](pc \in {"built", "returned"}
            => LET paths == DepPaths
               IN  \A t \in Tasks :
                       Occurrences(yielded, t)
                           = Cardinality({p \in paths : EndOf(p) = t}))

\* A task reached along two paths, after a sibling walked before it.
C8_Witness ==
    /\ pc = "returned"
    /\ deps[1] = <<2, 3>>
    /\ deps[2] = <<3>>
    /\ yielded = <<1, 2, 3, 3>>

Declares(task, k) == Truthy(outs[task]) /\ HasKey(outs[task].v, k)

\* The record the claim describes for one task and one of its keys.
ExpectedRecord(task, k) ==
    LET IsSignificant(x) == x.significant
        sig == SelectSeq(params[task], IsSignificant)
        path == GetItem(outs[task].v, k)
    IN  [parameters |-> [i \in 1..Len(sig) |-> <<sig[i].name, PyStr(sig[i].value.v)>>],
         file_name |-> IF path[1] = "/" THEN path ELSE Cwd \o <<"/">> \o path]

RECURSIVE ExpectedRecords(_, _)
ExpectedRecords(walk, k) ==
    IF walk = << >> THEN << >>
    ELSE (IF Declares(walk[1], k) THEN <<ExpectedRecord(walk[1], k)>> ELSE << >>)
         \o ExpectedRecords(Tail(walk), k)

AllKeys == {LogKey, HistKey, OtherKey}

\* C9: the registry get_all_output_files_in_tree(root) returns has, for every
\* key some yielded task declares, one record per yielded occurrence of a
\* task declaring it, in traversal order, with the task's serialized
\* significant parameters and the absolute path; it has no other entry.
C9_RegistryHoldsOneRecordPerOccurrenceAndKey ==
    (pc = "returned" /\ ~Truthy(key))
        => /\ tree_result.exc = ""
           /\ tree_result.val.t = "dict"
           /\ LET registry == tree_result.val.v
              IN  /\ \A i, j \in 1..Len(registry) :
                         registry[i][1] = registry[j][1] => i = j
                  /\ \A i \in 1..Len(registry) : registry[i][1] \in AllKeys
                  /\ LET walk == PreOrder
                     IN  \A k \in AllKeys :
                             IF \E i \in 1..Len(walk) : Declares(walk[i], k)
                             THEN /\ HasKey(registry, k)
                                  /\ GetItem(registry, k) = ExpectedRecords(walk, k)
                             ELSE ~HasKey(registry, k)

\* A root without outputs and two dependencies declaring "log", the second
\* of them also reached through the first.
C9_Witness ==
    /\ pc = "returned"
    /\ ~Truthy(key)
    /\ deps[1] = <<2, 3>>
    /\ deps[2] = <<3>>
    /\ ~Truthy(outs[1])
    /\ Declares(2, LogKey) /\ Declares(3, LogKey) /\ Declares(3, HistKey)
    /\ params[2] # params[3]
    /\ Len(GetItem(tree_result.val.v, LogKey)) = 3
    /\ Len(GetItem(tree_result.val.v, HistKey)) = 2

\* C1: get_all_output_files_in_tree(root, key) with a key that no task of the
\* tree declares signals a lookup failure and never returns an empty
\* sequence.
C1_UnknownKeyIsLookupFailure ==
    (pc = "returned" /\ Truthy(key)
        /\ \A i \in 1..Len(yielded) : ~Declares(yielded[i], key.v))
        => tree_result.exc = "KeyError"

------------------------------------------------------------------------------
\* Deriving the output path of one task.

PathChars == {"/", "=", "b"}

PathValues == {PyStr(c) : c \in SeqsUpTo(PathChars, MaxValueLen)}

Param(n, val, sig) == [name |-> n, value |-> val, significant |-> sig]

\* The value of an insignificant parameter is never read.
Insignificant(n) == Param(n, PyInt(<<"7">>), FALSE)

\* task.get_params() of a task declaring no parameter, a, or a then b.
PathParams ==
    {<< >>}
    \cup {<<Insignificant("a")>>}
    \cup {<<Param("a", x, TRUE)>> : x \in PathValues}
    \cup {<<Insignificant("a"), Insignificant("b")>>}
    \cup {<<Param("a", x, TRUE), Insignificant("b")>> : x \in PathValues}
    \cup {<<Insignificant("a"), Param("b", y, TRUE)>> : y \in PathValues}
    \cup {<<Param("a", x, TRUE), Param("b", y, TRUE)>> : x \in PathValues, y \in PathValues}

\* result_path: not given, an absolute directory, a relative one ending in "/".
ResultPaths == {PyNone, PyStr(<<"/", "o">>), PyStr(<<"r", "/">>)}

\* base_filename is the name of a file below the result path.
BaseFilenames == {<<"f">>}

InitPath ==
    /\ pc = "path_ready"
    /\ params \in {<<pl>> : pl \in PathParams}
    /\ base_filename \in BaseFilenames
    /\ result_path \in ResultPaths
    /\ settings = << >>
    /\ filename = Unset
    /\ dirs = {}
    /\ deps = << >> /\ outs = << >>
    /\ frames = << >> /\ yielded = << >> /\ all_output_files = << >>
    /\ key = PyNone /\ tree_result = Unset
    /\ output_files = << >> /\ kwargs = << >>
    /\ assignments = Unset /\ filtered = Unset

\* set_setting("result_path", value)
SetResultPath(value) ==
    /\ pc = "path_ready"
    /\ ~HasKey(settings, "result_path")
    /\ settings' = set_setting("result_path", value)
    /\ UNCHANGED <<pc, params, base_filename, result_path, filename, dirs>>
    /\ UNCHANGED treeVars
    /\ UNCHANGED filterVars

\* create_output_file_name(task, base_filename, create_folder, result_path)
Derive(create_folder) ==
    /\ pc = "path_ready"
    /\ LET name == create_output_file_name(Root, base_filename, result_path)
       IN  /\ filename' = Return(name)
           /\ dirs' = IF create_folder THEN MakeDirs(dirs, DirName(name)) ELSE dirs
    /\ pc' = "derived"
    /\ UNCHANGED <<params, base_filename, result_path, settings>>
    /\ UNCHANGED treeVars
    /\ UNCHANGED filterVars

NextPath == SetResultPath(<<"/", "s">>) \/ (\E create_folder \in BOOLEAN : Derive(create_folder))

SpecPath == InitPath /\ [][NextPath]_vars

------------------------------------------------------------------------------
\* The three components together.

Init == InitFilter \/ InitTree \/ InitPath

Next == NextFilter \/ NextTree \/ NextPath

Spec == Init /\ [][Next]_vars

------------------------------------------------------------------------------
\* Properties of the path deriver (SpecPath).

\* The root the path starts from: the result_path argument, else the
\* result_path setting, else ".".
RootOf ==
    IF result_path.t = "str" /\ result_path.v # << >> THEN result_path.v
    ELSE IF HasKey(settings, "result_path") THEN GetItem(settings, "result_path")
    ELSE <<".">>

\* path, "/" unless the path ends with one, then the component.
Under(path, component) ==
    IF path[Len(path)] = "/" THEN path \o component
    ELSE path \o <<"/">> \o component

RECURSIVE SegmentsUnder(_, _)
SegmentsUnder(path, plist) ==
    IF plist = << >> THEN path
    ELSE IF plist[1].significant
         THEN SegmentsUnder(Under(path, <<plist[1].name, "=">> \o plist[1].value.v),
                            Tail(plist))
         ELSE SegmentsUnder(path, Tail(plist))

\* C7: create_output_file_name returns the root, then one segment
\* "name=value" per significant parameter in declaration order (none for an
\* insignificant one), then base_filename; with no significant parameter it
\* returns root/base_filename.
C7_PathIsRootSegmentsBase ==
    pc = "derived"
        => /\ filename = Return(Under(SegmentsUnder(RootOf, params[Root]), base_filename))
           /\ (\A i \in 1..Len(params[Root]) : ~params[Root][i].significant)
                  => filename = Return(Under(RootOf, base_filename))

\* An insignificant parameter declared before a significant one, the root
\* taken from the settings.
C7_Witness ==
    /\ pc = "derived"
    /\ params[Root] = <<Insignificant("a"), Param("b", PyStr(<<"b">>), TRUE)>>
    /\ result_path = PyNone
    /\ filename = Return(<<"/", "s", "/", "b", "=", "b", "/", "f">>)

AllSignificant == \A i \in 1..Len(params[Root]) : params[Root][i].significant

\* The tasks with the names of this one and any values.
WithValues(vals) ==
    [i \in 1..Len(params[Root]) |-> Param(params[Root][i].name, vals[i], TRUE)]

SameValues(vals) == \A i \in 1..Len(params[Root]) : vals[i] = params[Root][i].value

PathOf(plist) == DerivePath(SerializeInto(<< >>, plist), base_filename, result_path)

\* C6 as claimed: two tasks with the same parameter names, base filename and
\* root get the same path iff their serialized values are equal, whatever the
\* values are ("/" and "=" included).
C6_SamePathIffSameValues ==
    (pc = "derived" /\ AllSignificant)
        => \A vals \in [1..Len(params[Root]) -> PathValues] :
               (Return(PathOf(WithValues(vals))) = filename) <=> SameValues(vals)

HasSlash(value) == \E i \in 1..Len(value.v) : value.v[i] = "/"

SlashFree == \A i \in 1..Len(params[Root]) : ~HasSlash(params[Root][i].value)

\* C6 as amended: the same, for serialized values that hold no "/".
C6_SamePathIffSameSlashFreeValues ==
    (pc = "derived" /\ AllSignificant /\ SlashFree)
        => \A vals \in [1..Len(params[Root]) -> {x \in PathValues : ~HasSlash(x)}] :
               (Return(PathOf(WithValues(vals))) = filename) <=> SameValues(vals)

\* Two parameters whose values hold "=" and the name of the second one.
C6_Witness ==
    /\ pc = "derived"
    /\ params[Root] = <<Param("a", PyStr(<<"=", "b">>), TRUE),
                        Param("b", PyStr(<<"b", "=">>), TRUE)>>
    /\ filename.exc = ""

=============================================================================
